---- MODULE Spec2Model ----
(***************************************************************************)
(* Footnote resolution of cap-conv (src/src/main.ts, lines 1-388).         *)
(*                                                                         *)
(* The program loads a chapter document and its footnote container, walks  *)
(* the chapter tree turning every link into a footnote reference, walks    *)
(* the footnote tree turning every link into a footnote reference or a     *)
(* footnote definition, and writes the Markdown output.                    *)
(*                                                                         *)
(* Strings are sequences of one-character strings, so that repeat,         *)
(* startsWith, slice, split and parseInt are computed as the code computes *)
(* them.  A file name is one opaque symbol of such a sequence: the code    *)
(* only compares file names for equality.                                  *)
(*                                                                         *)
(* A tree is a sequence of paragraphs (the children of the root), each a   *)
(* sequence of phrasing nodes.  The visitor callbacks only read            *)
(* parent.children and index, so one level of parents carries everything   *)
(* they depend on.                                                         *)
(***************************************************************************)
EXTENDS Integers, Sequences, FiniteSets, TLC

VARIABLES
    chap,          \* mdast tree of the chapter document (seq of paragraphs)
    footnotes,     \* mdast tree of the footnote container
    usedIdentifiers,
    targetsToFinalIdentifiers,
    pc,            \* position of the top-level script
    cursor,        \* position of the running visit(): paragraph and offset
    err,           \* message kind of the uncaught Error, "" when none
    written        \* names of the files written so far

vars == <<chap, footnotes, usedIdentifiers, targetsToFinalIdentifiers,
          pc, cursor, err, written>>

----------------------------------------------------------------------------
(* Strings *)

\* the value undefined: one symbol, which no string of characters equals
Undefined == <<"undefined">>

file1 == "chapter001.xhtml"
file2 == "chapter001-fn.xhtml"

Digit == <<"0", "1", "2", "3", "4", "5", "6", "7", "8", "9">>

IsDigit(c) == \E d \in 1..10 : Digit[d] = c

DigitVal(c) == (CHOOSE d \in 1..10 : Digit[d] = c) - 1

\* String(i) of a non-negative integer, as the template literal `ast${i}` does
RECURSIVE NumToString(_)
NumToString(n) ==
    IF n < 10 THEN <<Digit[n + 1]>>
    ELSE NumToString(n \div 10) \o <<Digit[(n % 10) + 1]>>

StartsWith(s, prefix) ==
    /\ Len(s) >= Len(prefix)
    /\ SubSeq(s, 1, Len(prefix)) = prefix

EndsWith(s, suffix) ==
    /\ Len(s) >= Len(suffix)
    /\ SubSeq(s, Len(s) - Len(suffix) + 1, Len(s)) = suffix

\* s.slice(from, -fromEnd)
Slice(s, from, fromEnd) == SubSeq(s, from + 1, Len(s) - fromEnd)

RECURSIVE Repeat(_, _)
Repeat(s, n) == IF n = 0 THEN <<>> ELSE s \o Repeat(s, n - 1)

\* value of the longest run of decimal digits at the start of s
RECURSIVE DigitsValue(_, _)
DigitsValue(s, acc) ==
    IF s = <<>> \/ ~IsDigit(Head(s)) THEN acc
    ELSE DigitsValue(Tail(s), acc * 10 + DigitVal(Head(s)))

RECURSIVE SkipSpaces(_)
SkipSpaces(s) ==
    IF s # <<>> /\ Head(s) = " " THEN SkipSpaces(Tail(s)) ELSE s

\* Number.parseInt(s) used as a condition: true unless the result is NaN or 0.
\* Leading white space and one sign are skipped, then the decimal digits are
\* read up to the first other character; undefined gives NaN.
ParseIntTruthy(s) ==
    LET t == SkipSpaces(s)
        u == IF t # <<>> /\ Head(t) \in {"-", "+"} THEN Tail(t) ELSE t
    IN  /\ u # <<>>
        /\ IsDigit(Head(u))
        /\ DigitsValue(u, 0) # 0

\* url.split("#"): the parts between the "#" symbols
RECURSIVE Split(_, _)
Split(s, cur) ==
    IF s = <<>> THEN <<cur>>
    ELSE IF Head(s) = "#" THEN <<cur>> \o Split(Tail(s), <<>>)
    ELSE Split(Tail(s), Append(cur, Head(s)))

\* const [file, target] = node.url.split("#")
UrlFile(url) == Split(url, <<>>)[1]

\* target is undefined when the url holds no "#"
UrlTarget(url) ==
    LET parts == Split(url, <<>>)
    IN  IF Len(parts) >= 2 THEN parts[2] ELSE Undefined

----------------------------------------------------------------------------
(* Nodes *)

Node(t, u, v, id, kids) ==
    [type |-> t, url |-> u, value |-> v, identifier |-> id, children |-> kids]

Text(v) == Node("text", Undefined, v, Undefined, <<>>)

Html(v) == Node("html", Undefined, v, Undefined, <<>>)

\* <em>...</em>: a phrasing node with children and without a value
Emphasis(kids) == Node("emphasis", Undefined, Undefined, Undefined, kids)

LinkWith(url, kids) == Node("link", url, Undefined, Undefined, kids)

Link(url, label) == LinkWith(url, <<Text(label)>>)

FootnoteReference(id) ==
    Node("footnoteReference", Undefined, Undefined, id, <<>>)

FootnoteDefinition(id) ==
    Node("footnoteDefinition", Undefined, Undefined, id, <<>>)

CommentOpen == <<"<", "!", "-", "-", " ">>
CommentClose == <<" ", "-", "-", ">">>

\* the p handler of convertToMdast: value: `<!-- ${node.properties.id} -->`
Marker(id) == Html(CommentOpen \o id \o CommentClose)

----------------------------------------------------------------------------
(* The identifier registry *)

NoIdentifiers == {}

\* new Map(): the function with the empty domain
EmptyMap == [t \in {} |-> <<>>]

\* map.get(key)
MapGet(map, key) == IF key \in DOMAIN map THEN map[key] ELSE Undefined

\* a faulty set: the map is replaced by one that holds the new entry only
MapSetAlone(map, key, value) == [t \in {key} |-> value]

\* map.set(key, value)
MapSet(map, key, value) ==
    [t \in DOMAIN map \cup {key} |-> IF t = key THEN value ELSE map[t]]

\* a faulty test: only undefined is taken as absent
DefinedOnly(got) == got # Undefined

\* if (identifier): undefined and the empty string are falsy
Truthy(got) == got # Undefined /\ got # <<>>

----------------------------------------------------------------------------
(* Allocation of a final identifier, as both callbacks do it *)

Asterisk == <<"*">>
ChapPrefix == <<"a", "s", "t">>
FootPrefix == <<"f", "n", "-", "a", "s", "t">>

\* a faulty substitution: the asterisk becomes the bare prefix
DesiredIdentifierWithoutSuffix(label, prefix) ==
    IF label = Asterisk THEN prefix ELSE label

\* if (desiredIdentifier === "*") desiredIdentifier = `${prefix}1`
DesiredIdentifier(label, prefix) ==
    IF label = Asterisk THEN prefix \o <<"1">> ELSE label

\* the body of the while loop: the candidate tried with counter i
Candidate(desired, prefix, i) ==
    IF StartsWith(desired, prefix) THEN prefix \o NumToString(i)
    ELSE Repeat(desired, i)

\* if (Number.parseInt(desiredIdentifier)) throw ...
IsNumbered(desired) == ParseIntTruthy(desired)

\* a faulty loop: an if in the place of the while, so that the first
\* candidate is taken without a look at usedIdentifiers
RenameOnce(used, desired, prefix, i, left) ==
    [kind |-> "ok", identifier |-> Candidate(desired, prefix, i)]

\* let i = 2; while (usedIdentifiers.has(finalIdentifier)) { ...; i++ }
\* The loop is entered with a used desiredIdentifier; when that is undefined,
\* desiredIdentifier.startsWith throws a TypeError in the first iteration.
\* The candidates of a terminating loop are pairwise distinct, so more than
\* Cardinality(used) iterations mean that the loop tries the same string
\* again and never ends.
RECURSIVE RenameLoop(_, _, _, _, _)
RenameLoop(used, desired, prefix, i, left) ==
    LET finalIdentifier == Candidate(desired, prefix, i)
    IN  IF finalIdentifier \notin used
        THEN [kind |-> "ok", identifier |-> finalIdentifier]
        ELSE IF left = 0
        THEN [kind |-> "diverges", identifier |-> <<>>]
        ELSE RenameLoop(used, desired, prefix, i + 1, left - 1)

\* a faulty allocation: the desired identifier is taken although it is used
AllocateWithoutCollisionCheck(used, label, prefix) ==
    [kind |-> "ok", identifier |-> DesiredIdentifier(label, prefix)]

Allocate(used, label, prefix) ==
    LET desired == DesiredIdentifier(label, prefix)
    IN  IF desired \notin used
        THEN [kind |-> "ok", identifier |-> desired]
        ELSE IF IsNumbered(desired)
        THEN [kind |-> "conflict", identifier |-> <<>>]
        ELSE IF desired = Undefined
        THEN [kind |-> "typeError", identifier |-> <<>>]
        ELSE RenameLoop(used, desired, prefix, 2, Cardinality(used))

\* a faulty allocation: the label is looked up in an empty set
ChapAllocateUnseen(used, label) == Allocate({}, label, ChapPrefix)

ChapAllocate(used, label) == Allocate(used, label, ChapPrefix)

FootAllocate(used, label) == Allocate(used, label, FootPrefix)

----------------------------------------------------------------------------
(* Trees and the traversal of unist-util-visit *)

PositionsOf(tree) ==
    UNION {{[p |-> i, c |-> j] : j \in 1..Len(tree[i])} : i \in 1..Len(tree)}

NodeAt(tree, pos) == tree[pos.p][pos.c]

\* positions of the link nodes the traversal has still to reach: visit()
\* walks the paragraphs in order and, in each, the children from the offset
LinksFrom(tree, cur) ==
    {pos \in PositionsOf(tree) :
        /\ NodeAt(tree, pos).type = "link"
        /\ \/ pos.p > cur.p
           \/ pos.p = cur.p /\ pos.c >= cur.c}

Before(a, b) == a.p < b.p \/ (a.p = b.p /\ a.c <= b.c)

\* the next node the test "link" accepts, in depth-first, left-to-right order
NextLink(tree, cur) ==
    CHOOSE pos \in LinksFrom(tree, cur) :
        \A other \in LinksFrom(tree, cur) : Before(pos, other)

FirstOffset == [p |-> 1, c |-> 1]

\* a faulty continuation: the sibling after the replaced node is passed over
AfterSkipOverNext(pos) == [p |-> pos.p, c |-> pos.c + 2]

\* return SKIP: the traversal goes on with the next sibling
AfterSkip(pos) == [p |-> pos.p, c |-> pos.c + 1]

\* a faulty continuation: [SKIP, index + 1] is returned after the splice
AfterSkipToNext(pos) == [p |-> pos.p, c |-> pos.c + 1]

\* return [SKIP, index]: the traversal goes on at offset index of the parent;
\* index is zero-based, so it is the offset pos.c - 1, the sibling pos.c here
AfterSkipTo(pos) == [p |-> pos.p, c |-> pos.c]

\* a faulty replacement: the assignment to parent.children[index] is missing
ReplaceNothing(tree, pos, node) == tree

\* parent.children[index] = node
ReplaceChild(tree, pos, node) ==
    [tree EXCEPT ![pos.p] = [@ EXCEPT ![pos.c] = node]]

\* a faulty removal: splice(index - 2, 1) where the parent has that child
DropBeforePrevious(tree, pos) ==
    [tree EXCEPT ![pos.p] =
        IF pos.c >= 3
        THEN SubSeq(@, 1, pos.c - 3) \o SubSeq(@, pos.c - 1, Len(@))
        ELSE SubSeq(@, 1, pos.c - 2) \o SubSeq(@, pos.c, Len(@))]

\* parent.children.splice(index - 1, 1)
DropPrevious(tree, pos) ==
    [tree EXCEPT ![pos.p] =
        SubSeq(@, 1, pos.c - 2) \o SubSeq(@, pos.c, Len(@))]

\* prevSib.type === "html" && prevSib.value.startsWith("<!-- ") &&
\* prevSib.value.endsWith(" -->")
IsComment(node) ==
    /\ node.type = "html"
    /\ StartsWith(node.value, CommentOpen)
    /\ EndsWith(node.value, CommentClose)

\* identifier = targetsToFinalIdentifiers.get(prevSib.value.slice(5, -4)),
\* undefined when the previous sibling is no comment
LookupPrevious(map, prevSib) ==
    IF IsComment(prevSib)
    THEN MapGet(map, Slice(prevSib.value, 5, 4))
    ELSE Undefined

\* a faulty position check: index <= 1
NoPreviousSiblingOffByOne(pos) == pos.c - 1 <= 1

\* index < 1: the link is the first child of its parent
NoPreviousSibling(pos) == pos.c - 1 < 1

\* if (identifier): the link is a footnote definition
IsDefinition(got) == Truthy(got)

----------------------------------------------------------------------------
(* The checks both callbacks make before they read the label *)

\* a faulty check: the chapter pass makes the test of the footnote pass
ChapFileUnknownOfBoth(file) == file # <<file1>> /\ file # <<file2>>

\* file !== file2
ChapFileUnknown(file) == file # <<file2>>

\* a faulty check: the footnote pass compares the file with nothing
FootFileUnchecked(file) == FALSE

\* file !== file1 && file !== file2
FootFileUnknown(file) == file # <<file1>> /\ file # <<file2>>

\* node.children.length !== 1 && node.children[0].type !== "text"; the
\* second operand reads a property of undefined when there is no child
ChildrenError(kids) ==
    IF Len(kids) = 0 THEN "TypeError"
    ELSE IF Len(kids) # 1 /\ kids[1].type # "text" THEN "UnexpectedChildren"
    ELSE ""

\* (node.children[0] as Text).value: undefined when the child has no value
LabelOf(node) == node.children[1].value

----------------------------------------------------------------------------
(* Loading: collectReferencedUrls *)

HttpScheme == <<"h", "t", "t", "p">>

\* the files of the hrefs that do not start with "http"
ReferencedUrls(tree) ==
    {UrlFile(NodeAt(tree, pos).url) :
        pos \in {q \in PositionsOf(tree) :
                    /\ NodeAt(tree, q).type = "link"
                    /\ ~StartsWith(NodeAt(tree, q).url, HttpScheme)}}

\* a faulty bound: >= in the place of >
TooManyUrlsOffByOne(tree, isFootnotesFile) ==
    IF isFootnotesFile THEN Cardinality(ReferencedUrls(tree)) >= 2
    ELSE Cardinality(ReferencedUrls(tree)) >= 1

TooManyUrls(tree, isFootnotesFile) ==
    IF isFootnotesFile THEN Cardinality(ReferencedUrls(tree)) > 2
    ELSE Cardinality(ReferencedUrls(tree)) > 1

----------------------------------------------------------------------------
(* The two visitor callbacks *)

Throw(kind) == [kind |-> "throw", err |-> kind, identifier |-> <<>>]

Allocated(a) ==
    IF a.kind = "conflict" THEN Throw("ConflictingNumber")
    ELSE IF a.kind = "typeError" THEN Throw("TypeError")
    ELSE IF a.kind = "diverges"
    THEN [kind |-> "hang", err |-> "", identifier |-> <<>>]
    ELSE [kind |-> "reference", err |-> "", identifier |-> a.identifier]

\* visit(chap, "link", ...): what the callback does with a link node
ChapOutcome(node, used) ==
    IF ChapFileUnknown(UrlFile(node.url)) THEN Throw("ExternalLink")
    ELSE IF ~Truthy(UrlTarget(node.url)) THEN Throw("NoTarget")
    ELSE IF ChildrenError(node.children) # ""
    THEN Throw(ChildrenError(node.children))
    ELSE Allocated(ChapAllocate(used, LabelOf(node)))

\* visit(footnotes, "link", ...): what the callback does with the link node
\* at pos
FootOutcome(tree, pos, used, map) ==
    LET node == NodeAt(tree, pos)
    IN  IF FootFileUnknown(UrlFile(node.url)) THEN Throw("ExternalLink")
        ELSE IF ~Truthy(UrlTarget(node.url)) THEN Throw("NoTarget")
        ELSE IF ChildrenError(node.children) # ""
        THEN Throw(ChildrenError(node.children))
        ELSE IF NoPreviousSibling(pos) THEN Throw("UnexpectedPosition")
        ELSE LET got == LookupPrevious(map, tree[pos.p][pos.c - 1])
             IN  IF IsDefinition(got)
                 THEN [kind |-> "definition", err |-> "",
                       identifier |-> got]
                 ELSE Allocated(FootAllocate(used, LabelOf(node)))

----------------------------------------------------------------------------
(* Actions *)

\* const chap = await loadMungeConvert(file1)
LoadChap ==
    /\ pc = "loadChap"
    /\ IF TooManyUrls(chap, FALSE)
       THEN pc' = "failed" /\ err' = "TooManyUrlsChapter"
       ELSE pc' = "loadFoot" /\ err' = err
    /\ UNCHANGED <<chap, footnotes, usedIdentifiers,
                   targetsToFinalIdentifiers, cursor, written>>

\* const footnotes = await loadMungeConvert(file2, true)
LoadFoot ==
    /\ pc = "loadFoot"
    /\ IF TooManyUrls(footnotes, TRUE)
       THEN pc' = "failed" /\ err' = "TooManyUrlsFootnotes"
       ELSE pc' = "chap" /\ err' = err
    /\ UNCHANGED <<chap, footnotes, usedIdentifiers,
                   targetsToFinalIdentifiers, cursor, written>>

\* one call of the callback of visit(chap, "link", ...)
ChapVisit ==
    /\ pc = "chap"
    /\ LinksFrom(chap, cursor) # {}
    /\ LET pos == NextLink(chap, cursor)
           node == NodeAt(chap, pos)
           out == ChapOutcome(node, usedIdentifiers)
       IN  IF out.kind = "throw"
           THEN /\ pc' = "failed"
                /\ err' = out.err
                /\ UNCHANGED <<chap, usedIdentifiers,
                               targetsToFinalIdentifiers, cursor>>
           ELSE IF out.kind = "hang"
           THEN /\ pc' = "hung"
                /\ UNCHANGED <<chap, usedIdentifiers,
                               targetsToFinalIdentifiers, cursor, err>>
           ELSE /\ usedIdentifiers' = usedIdentifiers \cup {out.identifier}
                /\ targetsToFinalIdentifiers' =
                       MapSet(targetsToFinalIdentifiers, UrlTarget(node.url),
                              out.identifier)
                /\ chap' = ReplaceChild(chap, pos,
                                        FootnoteReference(out.identifier))
                /\ cursor' = AfterSkip(pos)
                /\ UNCHANGED <<pc, err>>
    /\ UNCHANGED <<footnotes, written>>

\* visit(chap, ...) returns: no link is left to visit
ChapEnd ==
    /\ pc = "chap"
    /\ LinksFrom(chap, cursor) = {}
    /\ pc' = "foot"
    /\ cursor' = FirstOffset
    /\ UNCHANGED <<chap, footnotes, usedIdentifiers,
                   targetsToFinalIdentifiers, err, written>>

\* one call of the callback of visit(footnotes, "link", ...)
FootVisit ==
    /\ pc = "foot"
    /\ LinksFrom(footnotes, cursor) # {}
    /\ LET pos == NextLink(footnotes, cursor)
           node == NodeAt(footnotes, pos)
           out == FootOutcome(footnotes, pos, usedIdentifiers,
                              targetsToFinalIdentifiers)
       IN  IF out.kind = "throw"
           THEN /\ pc' = "failed"
                /\ err' = out.err
                /\ UNCHANGED <<footnotes, usedIdentifiers,
                               targetsToFinalIdentifiers, cursor>>
           ELSE IF out.kind = "hang"
           THEN /\ pc' = "hung"
                /\ UNCHANGED <<footnotes, usedIdentifiers,
                               targetsToFinalIdentifiers, cursor, err>>
           ELSE IF out.kind = "definition"
           THEN /\ footnotes' =
                       DropPrevious(
                           ReplaceChild(footnotes, pos,
                                        FootnoteDefinition(out.identifier)),
                           pos)
                /\ cursor' = AfterSkipTo(pos)
                /\ UNCHANGED <<usedIdentifiers, targetsToFinalIdentifiers,
                               pc, err>>
           ELSE /\ usedIdentifiers' = usedIdentifiers \cup {out.identifier}
                /\ targetsToFinalIdentifiers' =
                       MapSet(targetsToFinalIdentifiers, UrlTarget(node.url),
                              out.identifier)
                /\ footnotes' = ReplaceChild(footnotes, pos,
                                             FootnoteReference(out.identifier))
                /\ cursor' = AfterSkip(pos)
                /\ UNCHANGED <<pc, err>>
    /\ UNCHANGED <<chap, written>>

\* visit(footnotes, ...) returns
FootEnd ==
    /\ pc = "foot"
    /\ LinksFrom(footnotes, cursor) = {}
    /\ pc' = "emit"
    /\ UNCHANGED <<chap, footnotes, usedIdentifiers,
                   targetsToFinalIdentifiers, cursor, err, written>>

OutputFiles ==
    <<"chapter001.xhtml.md", "chapter001-fn.xhtml.md", "parts-combined.md">>

\* a faulty emission: the files are written as soon as the chapter pass has
\* ended
EmitEarly ==
    /\ pc \in {"foot", "emit"}
    /\ written = <<>>
    /\ written' = OutputFiles
    /\ pc' = IF pc = "emit" THEN "done" ELSE pc
    /\ UNCHANGED <<chap, footnotes, usedIdentifiers,
                   targetsToFinalIdentifiers, cursor, err>>

\* toMarkdown of both trees, then the three writeFile calls
Emit ==
    /\ pc = "emit"
    /\ written' = OutputFiles
    /\ pc' = "done"
    /\ UNCHANGED <<chap, footnotes, usedIdentifiers,
                   targetsToFinalIdentifiers, cursor, err>>

Next ==
    \/ LoadChap
    \/ LoadFoot
    \/ ChapVisit
    \/ ChapEnd
    \/ FootVisit
    \/ FootEnd
    \/ Emit

----------------------------------------------------------------------------
(* The documents the run is started on *)

MaxNodes == 4
MaxLinks == 3

Targets == {<<"p">>, <<"q">>}

Url(file, target) == <<file, "#">> \o target

\* the labels of the links: an asterisk, numbers, words
Labels == {<<"*">>, <<"1">>, <<"0">>, <<"a">>, <<"a", "s", "t", "r", "o">>}

\* the children of the links of the structured documents: a text, or an
\* emphasised text as <a href="..."><em>a</em></a> gives it
StructureChildren == {<<Text(<<"a">>)>>, <<Emphasis(<<Text(<<"a">>)>>)>>}

\* the backlink a footnote carries to the place in the chapter that cites it
Backlink == Link(Url(file1, <<"r">>), <<"1">>)

\* the p handler makes no paragraph without children
Paragraphs(flat, cut) ==
    IF flat = <<>> THEN <<>>
    ELSE IF cut = 0 THEN <<flat>>
    ELSE <<SubSeq(flat, 1, cut), SubSeq(flat, cut + 1, Len(flat))>>

StructureLinks ==
    {LinkWith(Url(file2, t), kids) : t \in Targets, kids \in StructureChildren}

StructureNodes ==
    StructureLinks \cup {Backlink} \cup {Marker(t) : t \in Targets}
        \cup {Text(<<"x">>)}

LabelledLinks == {Link(Url(file2, t), l) : t \in Targets, l \in Labels}

\* toMdast merges adjacent text nodes: no paragraph holds two in a row
NoAdjacentTexts(tree) ==
    \A i \in 1..Len(tree) : \A j \in 1..(Len(tree[i]) - 1) :
        ~(tree[i][j].type = "text" /\ tree[i][j + 1].type = "text")

\* documents of at most MaxNodes phrasing nodes: links, anchor markers and
\* text in any order, the footnote container in one or two paragraphs
StructuredDocuments ==
    \E nc \in 0..MaxNodes : \E nf \in 0..(MaxNodes - nc) :
    \E c \in [1..nc -> StructureLinks] : \E f \in [1..nf -> StructureNodes] :
    \E cut \in 0..(IF nf = 0 THEN 0 ELSE nf - 1) :
        /\ NoAdjacentTexts(Paragraphs(f, cut))
        /\ chap = Paragraphs(c, 0)
        /\ footnotes = Paragraphs(f, cut)

\* documents of at most MaxLinks links with any of the labels; the links of
\* the footnote container follow a text
LabelledDocuments ==
    \E nc \in 0..MaxLinks : \E nf \in 0..(MaxLinks - nc) :
    \E c \in [1..nc -> LabelledLinks] : \E f \in [1..nf -> LabelledLinks] :
        /\ chap = Paragraphs(c, 0)
        /\ footnotes = IF nf = 0 THEN <<>> ELSE <<<<Text(<<"x">>)>> \o f>>

\* a third file, and an address outside the book
file3 == "other.xhtml"
HttpUrl == HttpScheme \o <<"s", ":", "//example.org/", "#", "p">>

\* links off the expected shape: other files, urls without a target, and
\* children that are not one text (<a href="..."></a>,
\* <a href="...">a<em>a</em></a>, <a href="..."><em>a</em>a</a>)
IrregularLinks ==
    {Link(Url(file3, <<"p">>), <<"a">>),
     Link(HttpUrl, <<"a">>),
     Link(<<file3>>, <<"a">>),
     Link(<<file2>>, <<"a">>),
     Link(<<file2, "#">>, <<"a">>),
     Link(Url(file1, <<"p">>), <<"a">>),
     LinkWith(Url(file2, <<"p">>), <<>>),
     LinkWith(Url(file2, <<"p">>),
              <<Text(<<"a">>), Emphasis(<<Text(<<"a">>)>>)>>),
     LinkWith(Url(file2, <<"p">>),
              <<Emphasis(<<Text(<<"a">>)>>), Text(<<"a">>)>>),
     Link(Url(file2, <<"p">>), <<"a">>)}

IrregularNodes == IrregularLinks \cup {Marker(<<"p">>), Text(<<"x">>)}

MaxIrregular == 3

\* documents of at most MaxIrregular phrasing nodes, the links of any shape
IrregularDocuments ==
    \E nc \in 0..MaxIrregular : \E nf \in 0..(MaxIrregular - nc) :
    \E c \in [1..nc -> IrregularLinks] : \E f \in [1..nf -> IrregularNodes] :
        /\ NoAdjacentTexts(Paragraphs(f, 0))
        /\ chap = Paragraphs(c, 0)
        /\ footnotes = Paragraphs(f, 0)

MaxSentinels == 4

\* the labels that begin with the prefix of the asterisk's identifier
SentinelLabels == {<<"*">>, <<"a", "s", "t", "r", "o">>}

\* the anchor id of the footnote the i-th link of a chapter points to: its
\* number for a link labelled with an asterisk, w and its number for a word
SentinelTarget(i, label) ==
    IF label = Asterisk THEN NumToString(i) ELSE <<"w">> \o NumToString(i)

\* chapters of at most MaxSentinels links to one footnote each
SentinelDocuments ==
    \E nc \in 0..MaxSentinels : \E c \in [1..nc -> SentinelLabels] :
        /\ chap = Paragraphs([i \in 1..nc |->
                     Link(Url(file2, SentinelTarget(i, c[i])), c[i])], 0)
        /\ footnotes = <<>>

\* the labels that begin with the prefix of the footnote pass
FootSentinelLabels == {<<"*">>, <<"f", "n", "-", "a", "s", "t", "r", "o">>}

\* the anchor id the i-th link of a footnote container points to: f and its
\* number for a link labelled with an asterisk, w and its number for a word
FootSentinelTarget(i, label) ==
    IF label = Asterisk THEN <<"f">> \o NumToString(i)
    ELSE <<"w">> \o NumToString(i)

\* footnote containers of a text and at most MaxSentinels links to one
\* footnote each, beside a chapter of at most one link labelled with an
\* asterisk
FootSentinelDocuments ==
    \E nc \in 0..1 : \E nf \in 0..MaxSentinels :
    \E f \in [1..nf -> FootSentinelLabels] :
        /\ chap = Paragraphs([i \in 1..nc |->
                     Link(Url(file2, SentinelTarget(i, Asterisk)),
                          Asterisk)], 0)
        /\ footnotes = <<<<Text(<<"x">>)>> \o
                     [i \in 1..nf |->
                         Link(Url(file2, FootSentinelTarget(i, f[i])), f[i])]>>

Init ==
    /\ \/ StructuredDocuments
       \/ LabelledDocuments
       \/ IrregularDocuments
       \/ SentinelDocuments
       \/ FootSentinelDocuments
    /\ usedIdentifiers = NoIdentifiers
    /\ targetsToFinalIdentifiers = EmptyMap
    /\ pc = "loadChap"
    /\ cursor = FirstOffset
    /\ err = ""
    /\ written = <<>>

Spec == Init /\ [][Next]_vars

----------------------------------------------------------------------------
(* The allocation on any registry: the two passes started on a link each,
   with usedIdentifiers any set of the identifiers below *)

AllocationIdentifiers ==
    {<<>>, <<"a">>, <<"a", "a">>, <<"a", "s", "t", "1">>,
     <<"a", "s", "t", "2">>, <<"f", "n", "-", "a", "s", "t", "1">>,
     <<"f", "n", "-", "a", "s", "t", "2">>}

\* the empty label, a word, the asterisk, a word that begins with ast
AllocationLabels ==
    {<<>>, <<"a">>, <<"*">>, <<"a", "s", "t", "r", "o">>}

AllocationInit ==
    /\ usedIdentifiers \in SUBSET AllocationIdentifiers
    /\ \E l \in AllocationLabels :
           chap = <<<<Link(Url(file2, <<"p">>), l)>>>>
    /\ \E l \in AllocationLabels :
           footnotes = <<<<Text(<<"x">>), Link(Url(file2, <<"q">>), l)>>>>
    /\ targetsToFinalIdentifiers = EmptyMap
    /\ pc = "chap"
    /\ cursor = FirstOffset
    /\ err = ""
    /\ written = <<>>

AllocationNext ==
    \/ ChapVisit
    \/ ChapEnd
    \/ FootVisit
    \/ FootEnd
    \/ Emit

AllocationSpec == AllocationInit /\ [][AllocationNext]_vars

----------------------------------------------------------------------------
(* Vocabulary of the properties *)

\* the tree the running pass walks, and the link its callback is called on
\* next
Visiting ==
    /\ pc \in {"chap", "foot"}
    /\ LinksFrom(IF pc = "chap" THEN chap ELSE footnotes, cursor) # {}

VisitTree == IF pc = "chap" THEN chap ELSE footnotes

VisitPos == NextLink(VisitTree, cursor)

VisitNode == NodeAt(VisitTree, VisitPos)

VisitLabel == VisitNode.children[1].value

VisitTarget == UrlTarget(VisitNode.url)

\* the link passes the checks on its file, its target and its children
WellFormedLink ==
    /\ Len(VisitNode.children) = 1
    /\ VisitNode.children[1].type = "text"
    /\ VisitTarget \notin {<<>>, Undefined}
    /\ IF pc = "chap" THEN UrlFile(VisitNode.url) = <<file2>>
       ELSE UrlFile(VisitNode.url) \in {<<file1>>, <<file2>>}

HasPreviousSibling == VisitPos.c > 1

PreviousSibling == VisitTree[VisitPos.p][VisitPos.c - 1]

\* the previous sibling is the anchor marker of an id
PreviousIsMarker ==
    /\ HasPreviousSibling
    /\ PreviousSibling.type = "html"
    /\ \E n \in 0..Len(PreviousSibling.value) :
           PreviousSibling = Marker(SubSeq(PreviousSibling.value, 6, 5 + n))

\* the previous sibling is the anchor marker of a key of the map
PreviousIsRegisteredMarker ==
    /\ HasPreviousSibling
    /\ \E t \in DOMAIN targetsToFinalIdentifiers : PreviousSibling = Marker(t)

\* the link is one the specification classifies as a Reference
SpecifiedReference ==
    /\ Visiting
    /\ WellFormedLink
    /\ pc = "foot" => HasPreviousSibling /\ ~PreviousIsRegisteredMarker

\* the callback reaches its allocation of an identifier
ReachesAllocation ==
    /\ Visiting
    /\ WellFormedLink
    /\ pc = "foot" =>
           /\ HasPreviousSibling
           /\ ~IsDefinition(LookupPrevious(targetsToFinalIdentifiers,
                                           PreviousSibling))

\* the label after the asterisk has been replaced by the sentinel of the pass
SentinelBase ==
    IF pc = "chap" THEN <<"a", "s", "t">>
    ELSE <<"f", "n", "-", "a", "s", "t">>

VisitDesired ==
    IF VisitLabel = <<"*">> THEN SentinelBase \o <<"1">> ELSE VisitLabel

\* the string is a decimal integer
ParsesAsInteger(s) ==
    /\ s # <<>>
    /\ \A i \in 1..Len(s) :
           s[i] \in {"0", "1", "2", "3", "4", "5", "6", "7", "8", "9"}

\* the tree of the running pass after the step, when the pass goes on
VisitTreeAfter == IF pc = "chap" THEN chap' ELSE footnotes'

\* the step replaced the visited link by a Footnote Reference
BecameReference ==
    /\ pc' = pc
    /\ VisitPos.c <= Len(VisitTreeAfter[VisitPos.p])
    /\ NodeAt(VisitTreeAfter, VisitPos).type = "footnoteReference"

NewIdentifier == NodeAt(VisitTreeAfter, VisitPos).identifier

\* occurrences of the nodes of one type in both trees
Occurrences(type) ==
    {<<"chap", pos>> : pos \in {q \in PositionsOf(chap) :
                                    NodeAt(chap, q).type = type}}
        \cup {<<"footnotes", pos>> :
                  pos \in {q \in PositionsOf(footnotes) :
                               NodeAt(footnotes, q).type = type}}

OccurrenceNode(o) ==
    IF o[1] = "chap" THEN NodeAt(chap, o[2]) ELSE NodeAt(footnotes, o[2])

WithIdentifier(type, id) ==
    {o \in Occurrences(type) : OccurrenceNode(o).identifier = id}

----------------------------------------------------------------------------
(* Properties *)

\* C1: a link classified as a Reference whose target id is already a key of
\* targetsToFinalIdentifiers receives the identifier recorded for that
\* target: the visit adds no identifier to usedIdentifiers, leaves the
\* recorded mapping as it is, and the Footnote Reference it makes carries
\* the recorded identifier.
C1_ReuseRecordedIdentifier ==
    [][(SpecifiedReference /\ VisitTarget \in DOMAIN targetsToFinalIdentifiers)
           => /\ usedIdentifiers' = usedIdentifiers
              /\ targetsToFinalIdentifiers' = targetsToFinalIdentifiers
              /\ BecameReference =>
                     NewIdentifier = targetsToFinalIdentifiers[VisitTarget]]_vars

\* C2: when the run has ended without an error, every Footnote Reference of
\* either tree has exactly one Footnote Definition with its identifier.
C2_ReferenceHasOneDefinition ==
    pc = "done" =>
        \A r \in Occurrences("footnoteReference") :
            Cardinality(WithIdentifier("footnoteDefinition",
                                       OccurrenceNode(r).identifier)) = 1

\* C3: every Footnote Definition has exactly one Footnote Reference, in
\* either tree, with its identifier; no run completes with a Definition
\* that lacks its Reference.
C3_DefinitionHasOneReference ==
    \A d \in Occurrences("footnoteDefinition") :
        Cardinality(WithIdentifier("footnoteReference",
                                   OccurrenceNode(d).identifier)) = 1

C3_Witness ==
    /\ pc = "done"
    /\ \E d \in Occurrences("footnoteDefinition") :
           WithIdentifier("footnoteReference", OccurrenceNode(d).identifier)
               \subseteq {o \in Occurrences("footnoteReference") :
                              o[1] = "footnotes"}

\* C4: when the run has ended without an error, usedIdentifiers has as many
\* elements as targetsToFinalIdentifiers has keys, and as many as there are
\* Footnote Definition nodes in the trees.
C4_UniquenessCount ==
    pc = "done" =>
        /\ Cardinality(usedIdentifiers)
               = Cardinality(DOMAIN targetsToFinalIdentifiers)
        /\ Cardinality(usedIdentifiers)
               = Cardinality(Occurrences("footnoteDefinition"))

\* C5: allocating a label that parses as an integer and is already in
\* usedIdentifiers fails with the conflicting-number error and leaves the
\* registry as it was.
C5_NumericCollisionFails ==
    [][(ReachesAllocation /\ ParsesAsInteger(VisitDesired)
            /\ VisitDesired \in usedIdentifiers)
           => /\ pc' = "failed"
              /\ err' = "ConflictingNumber"
              /\ usedIdentifiers' = usedIdentifiers
              /\ targetsToFinalIdentifiers' = targetsToFinalIdentifiers]_vars

\* C6: the identifier allocated to a second occurrence of a label that is no
\* number was not in usedIdentifiers before the call, is in it after the
\* call, and is the identifier of no Footnote Reference made earlier.
C6_AllocationIsFresh ==
    [][(ReachesAllocation /\ ~ParsesAsInteger(VisitDesired)
            /\ VisitDesired \in usedIdentifiers /\ BecameReference)
           => /\ NewIdentifier \notin usedIdentifiers
              /\ NewIdentifier \in usedIdentifiers'
              /\ WithIdentifier("footnoteReference", NewIdentifier) = {}]_vars

C6_Witness ==
    /\ pc = "done"
    /\ {<<"a">>, <<"a", "a">>, <<"a", "a", "a">>} \subseteq usedIdentifiers
    /\ \A id \in usedIdentifiers :
           Cardinality(WithIdentifier("footnoteReference", id)) = 1

\* C7: when the desired label is used and does not parse as an integer, the
\* allocation does not fail, and it returns the label repeated k times for
\* the smallest k >= 2 that is unused or, only for the label `*`, the
\* sentinel base with the smallest suffix n >= 2 that is unused.
C7_GrowthRule ==
    [][(ReachesAllocation /\ ~ParsesAsInteger(VisitDesired)
            /\ VisitDesired \in usedIdentifiers)
           => /\ pc' # "failed"
              /\ BecameReference =>
                   \E k \in 2..(Cardinality(usedIdentifiers) + 2) :
                     LET grown(n) == IF VisitLabel = <<"*">>
                                     THEN SentinelBase \o NumToString(n)
                                     ELSE Repeat(VisitLabel, n)
                     IN  /\ grown(k) \notin usedIdentifiers
                         /\ \A j \in 2..(k - 1) : grown(j) \in usedIdentifiers
                         /\ NewIdentifier = grown(k)]_vars

\* C8: when the desired label, after `*` has been replaced by the sentinel
\* base label, is not in usedIdentifiers, the allocation returns that label,
\* adds that one string to usedIdentifiers and removes nothing from it.
C8_FreshLabelVerbatim ==
    [][(ReachesAllocation /\ VisitDesired \notin usedIdentifiers)
           => /\ BecameReference
              /\ NewIdentifier = VisitDesired
              /\ usedIdentifiers' = usedIdentifiers \cup {VisitDesired}]_vars

C8_Witness ==
    /\ pc = "done"
    /\ WithIdentifier("footnoteReference", <<"a", "s", "t", "1">>) # {}
    /\ WithIdentifier("footnoteReference", <<"f", "n", "-", "a", "s", "t", "1">>)
           # {}
    /\ WithIdentifier("footnoteReference", <<"0">>) # {}

\* C9: in the footnote pass a link whose previous sibling is an Anchor
\* Marker whose id is a key of targetsToFinalIdentifiers is replaced by a
\* Footnote Definition with the recorded identifier and no children; the
\* marker is removed, the other siblings keep their order and the registry
\* is not changed.
C9_DefinitionClassification ==
    [][(Visiting /\ pc = "foot" /\ WellFormedLink
            /\ PreviousIsRegisteredMarker)
           => /\ pc' = pc
              /\ \E t \in DOMAIN targetsToFinalIdentifiers :
                   /\ PreviousSibling = Marker(t)
                   /\ footnotes' =
                          [footnotes EXCEPT ![VisitPos.p] =
                              SubSeq(@, 1, VisitPos.c - 2)
                                  \o <<FootnoteDefinition(
                                         targetsToFinalIdentifiers[t])>>
                                  \o SubSeq(@, VisitPos.c + 1, Len(@))]
              /\ usedIdentifiers' = usedIdentifiers
              /\ targetsToFinalIdentifiers' = targetsToFinalIdentifiers]_vars

\* C10, as stated: in the footnote pass every link without a preceding
\* Anchor Marker sibling, a first child included, becomes a Footnote
\* Reference and raises no error.
C10_ReferenceByDefault ==
    [][(Visiting /\ pc = "foot" /\ WellFormedLink /\ ~PreviousIsMarker)
           => BecameReference /\ err' = ""]_vars

\* C10, amended: in the footnote pass a link that is the first child of its
\* parent aborts the run with the unexpected-position error and changes
\* nothing; a link whose previous sibling is no Anchor Marker is never made
\* a Footnote Definition and raises no position error: it goes to the
\* allocation and, when the allocation returns, it is a Footnote Reference
\* at the same place among the same siblings.
C10_ReferenceUnlessFirstChild ==
    [][(Visiting /\ pc = "foot" /\ WellFormedLink /\ ~PreviousIsMarker)
           => IF ~HasPreviousSibling
              THEN /\ pc' = "failed"
                   /\ err' = "UnexpectedPosition"
                   /\ UNCHANGED <<footnotes, usedIdentifiers,
                                  targetsToFinalIdentifiers>>
              ELSE /\ err' \in {"", "ConflictingNumber"}
                   /\ pc' = pc =>
                          /\ footnotes' =
                                 [footnotes EXCEPT ![VisitPos.p][VisitPos.c] =
                                     FootnoteReference(NewIdentifier)]
                          /\ NewIdentifier \in usedIdentifiers'
                          /\ targetsToFinalIdentifiers'[VisitTarget]
                                 = NewIdentifier]_vars

C10_Witness ==
    /\ pc = "done"
    /\ \E pos \in PositionsOf(footnotes) :
           /\ pos.c > 1
           /\ NodeAt(footnotes, pos).type = "footnoteReference"
           /\ footnotes[pos.p][pos.c - 1].type = "text"
    /\ Len(footnotes) = 2

\* the link nodes left in a tree
LinksOf(tree) == LinksFrom(tree, FirstOffset)

\* C11: in a run in which an error is raised no output file is written,
\* neither before nor after the error; files are written only when both
\* passes have ended, no link is left in either tree and no error was raised.
C11_AllOrNothing ==
    /\ (pc = "failed" \/ err # "") => written = <<>>
    /\ written # <<>> =>
           /\ pc = "done"
           /\ err = ""
           /\ LinksOf(chap) = {}
           /\ LinksOf(footnotes) = {}

\* a run that failed in the footnote pass, after links had been replaced
C11_Witness ==
    /\ pc = "failed"
    /\ err = "UnexpectedPosition"
    /\ Occurrences("footnoteReference") # {}
    /\ written = <<>>

\* C12: the footnote tree is left alone until the chapter traversal has
\* ended; every chapter visit that makes a Reference puts its identifier in
\* usedIdentifiers and its target id among the keys of the map, neither of
\* which ever loses a member; so when the footnote pass starts and ever
\* after, the chapter tree holds no link and the identifier of each of its
\* References is in usedIdentifiers.
C12_PassOrdering ==
    [][/\ pc \in {"loadChap", "loadFoot", "chap"} => footnotes' = footnotes
       /\ (pc = "chap" /\ Visiting /\ BecameReference) =>
              /\ NewIdentifier \in usedIdentifiers'
              /\ VisitTarget \in DOMAIN targetsToFinalIdentifiers'
       /\ usedIdentifiers \subseteq usedIdentifiers'
       /\ DOMAIN targetsToFinalIdentifiers
              \subseteq DOMAIN targetsToFinalIdentifiers'
       /\ pc' = "foot" =>
              /\ LinksOf(chap') = {}
              /\ \A pos \in PositionsOf(chap') :
                     NodeAt(chap', pos).type = "footnoteReference" =>
                         NodeAt(chap', pos).identifier \in usedIdentifiers'
                             ]_vars

\* the footnote pass is about to visit its first link, after a chapter pass
\* that made two References
C12_Witness ==
    /\ pc = "foot"
    /\ cursor = FirstOffset
    /\ Cardinality({o \in Occurrences("footnoteReference") :
                        o[1] = "chap"}) >= 2
    /\ LinksOf(footnotes) # {}
    /\ DOMAIN targetsToFinalIdentifiers # {}

\* C13: a Footnote Reference of the footnote tree stays where it is, a
\* Footnote Reference with the same identifier, in every later state.
C13_NoReclassification ==
    [][\A pos \in PositionsOf(footnotes) :
           NodeAt(footnotes, pos).type = "footnoteReference" =>
               /\ pos \in PositionsOf(footnotes')
               /\ NodeAt(footnotes', pos) = NodeAt(footnotes, pos)]_vars

\* the run has ended with a Reference whose preceding Anchor Marker had its
\* id registered, under another identifier, by a later visit
C13_Witness ==
    /\ pc = "done"
    /\ \E pos \in PositionsOf(footnotes) :
           /\ pos.c > 1
           /\ NodeAt(footnotes, pos).type = "footnoteReference"
           /\ \E t \in DOMAIN targetsToFinalIdentifiers :
                  /\ footnotes[pos.p][pos.c - 1] = Marker(t)
                  /\ targetsToFinalIdentifiers[t]
                         # NodeAt(footnotes, pos).identifier

\* the keys of the map that are numbers: the targets of the links labelled
\* with an asterisk (SentinelTarget), each the position of its link
AsteriskTargets ==
    {t \in DOMAIN targetsToFinalIdentifiers : ParsesAsInteger(t)}

\* the place of the link with target t among the asterisk links visited
AsteriskRank(t) ==
    Cardinality({u \in AsteriskTargets :
                     DigitsValue(u, 0) <= DigitsValue(t, 0)})

\* C14: in a chapter none of whose labels has the form ast<n>, the k-th link
\* labelled with an asterisk, in the order of the traversal, receives the
\* identifier ast<k>.
C14_SentinelEncounterOrder ==
    \A t \in AsteriskTargets :
        targetsToFinalIdentifiers[t]
            = <<"a", "s", "t">> \o NumToString(AsteriskRank(t))

\* the file part of the visited link is one of the two known documents
VisitFileKnown == UrlFile(VisitNode.url) \in {<<file1>>, <<file2>>}

\* the file part of the visited link passes the file check of the pass
PassesFileCheck ==
    IF pc = "chap" THEN UrlFile(VisitNode.url) = <<file2>>
    ELSE UrlFile(VisitNode.url) \in {<<file1>>, <<file2>>}

RegistryUnchanged ==
    /\ usedIdentifiers' = usedIdentifiers
    /\ targetsToFinalIdentifiers' = targetsToFinalIdentifiers

TreesUnchanged == chap' = chap /\ footnotes' = footnotes

\* C15: in either pass, the visit of a link whose file part is neither of the
\* two known documents fails with the external-link error and leaves both
\* trees and the registry as they were.
C15_ExternalReferenceFails ==
    [][(Visiting /\ ~VisitFileKnown) =>
           /\ pc' = "failed"
           /\ err' = "ExternalLink"
           /\ TreesUnchanged
           /\ RegistryUnchanged]_vars

\* the footnote pass failed on a link to a third file, after a chapter pass
\* that registered a Reference; the link is still in the tree
C15_Witness ==
    /\ pc = "failed"
    /\ err = "ExternalLink"
    /\ usedIdentifiers # {}
    /\ Cardinality({o \in Occurrences("footnoteReference") :
                        o[1] = "chap"}) >= 1
    /\ LinksFrom(footnotes, cursor) # {}
    /\ UrlFile(NodeAt(footnotes, NextLink(footnotes, cursor)).url)
           \notin {<<file1>>, <<file2>>}

\* the distinct target files of the links of a tree
TargetFiles(tree) ==
    {UrlFile(NodeAt(tree, pos).url) : pos \in LinksOf(tree)}

BeginsWithHttp(url) ==
    /\ Len(url) >= 4
    /\ <<url[1], url[2], url[3], url[4]>> = <<"h", "t", "t", "p">>

\* the same, of the links whose address does not begin with http
LocalTargetFiles(tree) ==
    {UrlFile(NodeAt(tree, pos).url) :
        pos \in {q \in LinksOf(tree) : ~BeginsWithHttp(NodeAt(tree, q).url)}}

Loading == pc \in {"loadChap", "loadFoot"}

LoadedTree == IF pc = "loadChap" THEN chap ELSE footnotes

FileBound == IF pc = "loadChap" THEN 1 ELSE 2

\* C16: the load of a tree fails with the too-many-referenced-files error
\* exactly when the distinct target files of its links are more than 1 for
\* the chapter, 2 for the footnote container; it never changes a tree.
C16_ReferencedFileBound ==
    [][Loading =>
           /\ (pc' = "failed") <=>
                  Cardinality(TargetFiles(LoadedTree)) > FileBound
           /\ pc' = "failed" =>
                  err' \in {"TooManyUrlsChapter", "TooManyUrlsFootnotes"}
           /\ TreesUnchanged]_vars

\* C16, amended: the same, counting only the target files of the links whose
\* address does not begin with http.
C16_LocalFileBound ==
    [][Loading =>
           /\ (pc' = "failed") <=>
                  Cardinality(LocalTargetFiles(LoadedTree)) > FileBound
           /\ pc' = "failed" =>
                  err' = IF pc = "loadChap" THEN "TooManyUrlsChapter"
                         ELSE "TooManyUrlsFootnotes"
           /\ TreesUnchanged]_vars

\* the load of a footnote container with links to three files has failed
C16_Witness ==
    /\ pc = "failed"
    /\ err = "TooManyUrlsFootnotes"
    /\ Cardinality(LocalTargetFiles(footnotes)) = 3

\* the target of the visited link is empty or missing
NoAnchorId == VisitTarget \in {<<>>, Undefined}

\* C17: in either pass, the visit of a link whose target has an empty or
\* missing anchor id fails with the no-target error and allocates nothing.
C17_MalformedLinkFails ==
    [][(Visiting /\ NoAnchorId) =>
           /\ pc' = "failed"
           /\ err' = "NoTarget"
           /\ RegistryUnchanged]_vars

\* C17, amended: the same for the links whose file part passes the file
\* check of the pass; the others fail with the external-link error.
C17_MalformedLocalLinkFails ==
    [][(Visiting /\ NoAnchorId) =>
           /\ pc' = "failed"
           /\ err' = IF PassesFileCheck THEN "NoTarget" ELSE "ExternalLink"
           /\ TreesUnchanged
           /\ RegistryUnchanged]_vars

\* a pass has failed on a link to a known file with nothing after the #
C17_Witness ==
    /\ pc = "failed"
    /\ err = "NoTarget"
    /\ \E tree \in {chap, footnotes} :
           /\ LinksFrom(tree, cursor) # {}
           /\ UrlTarget(NodeAt(tree, NextLink(tree, cursor)).url) = <<>>

\* the references of the footnote tree
FootReferences(tree) ==
    {pos \in PositionsOf(tree) : NodeAt(tree, pos).type = "footnoteReference"}

\* C18: in the footnote pass, when a link preceded by an anchor-marker
\* comment is made a reference, the comment is deleted from the children of
\* the parent: the reference stands where the comment stood and the other
\* siblings keep their order.
C18_MarkerDeletedForReference ==
    [][(/\ pc = "foot"
        /\ Visiting
        /\ PreviousIsMarker
        /\ Cardinality(FootReferences(footnotes'))
               > Cardinality(FootReferences(footnotes)))
           => LET old == footnotes[VisitPos.p]
                  new == footnotes'[VisitPos.p]
              IN  /\ Len(new) = Len(old) - 1
                  /\ new[VisitPos.c - 1].type = "footnoteReference"
                  /\ SubSeq(new, 1, VisitPos.c - 2)
                         = SubSeq(old, 1, VisitPos.c - 2)
                  /\ SubSeq(new, VisitPos.c, Len(new))
                         = SubSeq(old, VisitPos.c + 1, Len(old))]_vars

\* the children of the visited link are exactly one text node
ExactlyOneText ==
    /\ Len(VisitNode.children) = 1
    /\ VisitNode.children[1].type = "text"

\* C19: in both passes, the visit of a link that passes the checks of its
\* file and target and whose children are not exactly one text node fails
\* with the unexpected-children error and leaves the registry alone.
C19_LinkShapeCheck ==
    [][(Visiting /\ PassesFileCheck /\ ~NoAnchorId /\ ~ExactlyOneText) =>
           /\ pc' = "failed"
           /\ err' = "UnexpectedChildren"
           /\ RegistryUnchanged]_vars

RECURSIVE NodesFrom(_, _)
NodesFrom(tree, cur) ==
    IF cur.p > Len(tree) THEN <<>>
    ELSE SubSeq(tree[cur.p], cur.c, Len(tree[cur.p]))
             \o NodesFrom(tree, [p |-> cur.p + 1, c |-> 1])

IsLink(node) == node.type = "link"

\* the links the traversal has still to visit, in order
PendingLinks(tree, cur) == SelectSeq(NodesFrom(tree, cur), IsLink)

\* the footnote visit made a Footnote Definition
MadeDefinition ==
    /\ pc = "foot"
    /\ Visiting
    /\ Cardinality(Occurrences("footnoteDefinition")')
           > Cardinality(Occurrences("footnoteDefinition"))

\* C21: every visit of the footnote pass that does not end the run, the
\* ones that splice the Anchor Marker out included, leaves to be visited
\* exactly the links that followed the visited one, in their order, and
\* leaves no link behind the traversal: each link of the tree is visited
\* once, in depth-first left-to-right order.
C21_TraversalAfterSplice ==
    [][(pc = "foot" /\ Visiting /\ pc' = "foot") =>
           /\ PendingLinks(footnotes', cursor')
                  = Tail(PendingLinks(footnotes, cursor))
           /\ PendingLinks(footnotes', FirstOffset)
                  = PendingLinks(footnotes', cursor')]_vars

\* the sibling that followed a Definition has been visited: it is a Footnote
\* Reference right after the Footnote Definition
C21_Witness ==
    /\ pc = "done"
    /\ \E pos \in PositionsOf(footnotes) :
           /\ NodeAt(footnotes, pos).type = "footnoteDefinition"
           /\ pos.c < Len(footnotes[pos.p])
           /\ footnotes[pos.p][pos.c + 1].type = "footnoteReference"

\* C22: a visit that makes a Definition leaves usedIdentifiers and the map
\* as they are; no step takes an element out of usedIdentifiers or a key out
\* of the map; and a step changes the registry only by one allocation: a
\* visit that makes a Reference, adds its identifier and sets it for the
\* target of the link.
C22_DefinitionStepFrame ==
    [][/\ MadeDefinition => RegistryUnchanged
       /\ usedIdentifiers \subseteq usedIdentifiers'
       /\ DOMAIN targetsToFinalIdentifiers
              \subseteq DOMAIN targetsToFinalIdentifiers'
       /\ ~RegistryUnchanged =>
              /\ Visiting
              /\ BecameReference
              /\ usedIdentifiers' = usedIdentifiers \cup {NewIdentifier}
              /\ targetsToFinalIdentifiers' =
                     [t \in DOMAIN targetsToFinalIdentifiers \cup {VisitTarget}
                         |-> IF t = VisitTarget THEN NewIdentifier
                             ELSE targetsToFinalIdentifiers[t]]]_vars

\* a Definition has been made in a run whose registry holds two identifiers
\* and two targets
C22_Witness ==
    /\ Occurrences("footnoteDefinition") # {}
    /\ Cardinality(usedIdentifiers) >= 2
    /\ Cardinality(DOMAIN targetsToFinalIdentifiers) >= 2

\* C23: in every state no two Footnote References, of one tree or of both,
\* carry the same identifier, and usedIdentifiers has as many elements as
\* there are Footnote References.
C23_ReferencesDistinct ==
    /\ \A r1, r2 \in Occurrences("footnoteReference") :
           OccurrenceNode(r1).identifier = OccurrenceNode(r2).identifier
               => r1 = r2
    /\ Cardinality(usedIdentifiers)
           = Cardinality(Occurrences("footnoteReference"))

\* both trees hold References whose labels collided: three in all
C23_Witness ==
    /\ \E r \in Occurrences("footnoteReference") : r[1] = "chap"
    /\ \E r \in Occurrences("footnoteReference") : r[1] = "footnotes"
    /\ Cardinality(Occurrences("footnoteReference")) >= 3
    /\ \E id \in usedIdentifiers : id \o id \in usedIdentifiers

\* the links, Footnote References and Footnote Definitions of both trees
Resolvable ==
    Cardinality(Occurrences("link"))
        + Cardinality(Occurrences("footnoteReference"))
        + Cardinality(Occurrences("footnoteDefinition"))

\* C24: when the run has ended without an error neither tree holds a link,
\* and every link has been replaced by one Footnote Reference or one
\* Footnote Definition: each visit that goes on takes one link away and
\* makes one such node, and no other step changes their number.
C24_NoLinkSurvives ==
    [][/\ Resolvable' = Resolvable
       /\ (Visiting /\ pc' = pc) =>
              Cardinality(Occurrences("link")')
                  = Cardinality(Occurrences("link")) - 1
       /\ pc' = "done" =>
              /\ err' = ""
              /\ Occurrences("link")' = {}]_vars

\* a run has ended with References in both trees and a Definition
C24_Witness ==
    /\ pc = "done"
    /\ written = OutputFiles
    /\ Occurrences("link") = {}
    /\ \E r \in Occurrences("footnoteReference") : r[1] = "chap"
    /\ \E r \in Occurrences("footnoteReference") : r[1] = "footnotes"
    /\ Occurrences("footnoteDefinition") # {}

\* C25: the chapter pass fails with the external-link error on exactly the
\* links whose file part is not the footnote container, the links to the
\* chapter document among them; the footnote pass never fails with that
\* error on a link to either of the two documents.
C25_AcceptedFilesPerPass ==
    [][Visiting =>
           /\ pc = "chap" =>
                  ((pc' = "failed" /\ err' = "ExternalLink")
                      <=> UrlFile(VisitNode.url) # <<file2>>)
           /\ (pc = "foot" /\ VisitFileKnown) =>
                  ~(pc' = "failed" /\ err' = "ExternalLink")]_vars

\* the chapter pass has failed on a link to the chapter document itself
C25_Witness ==
    /\ pc = "failed"
    /\ err = "ExternalLink"
    /\ LinksFrom(chap, cursor) # {}
    /\ UrlFile(NodeAt(chap, NextLink(chap, cursor)).url) = <<file1>>

\* the keys of the map that are f and a number: the targets of the links of
\* the footnote container labelled with an asterisk (FootSentinelTarget)
FootAsteriskTargets ==
    {t \in DOMAIN targetsToFinalIdentifiers :
        /\ Len(t) >= 2
        /\ t[1] = "f"
        /\ ParsesAsInteger(Tail(t))}

FootAsteriskRank(t) ==
    Cardinality({u \in FootAsteriskTargets :
                     DigitsValue(Tail(u), 0) <= DigitsValue(Tail(t), 0)})

\* C26: the k-th link labelled with an asterisk that the footnote pass makes
\* a Reference receives the identifier fn-ast<k>, whatever the chapter pass
\* allocated.
C26_SeparateSentinel ==
    \A t \in FootAsteriskTargets :
        targetsToFinalIdentifiers[t]
            = <<"f", "n", "-", "a", "s", "t">>
                  \o NumToString(FootAsteriskRank(t))


====
